---- MODULE Spec2Model ----
(***************************************************************************)
(* A model of the O(n^3) Hungarian-algorithm solver (kuhn_match) and of    *)
(* the bit set it uses to track the uncovered zero cells.                  *)
(*                                                                         *)
(* The solver is modelled at the granularity of the calls kuhn_match makes *)
(* (reduce_rows, mark, is_done, find_prime, add_and_subtract, alt_marks,   *)
(* assign); kuhn_find_prime is split at the head of its for(;;) loop, so   *)
(* every call of bitset_any is a state of the model.                       *)
(*                                                                         *)
(* A 64-bit limb is the set of its one bits (bit positions 0..63), and the *)
(* bit operations of the code are set operations on it.                    *)
(***************************************************************************)
EXTENDS Integers, Sequences, FiniteSets, TLC

VARIABLES
    n,            \* the table's height
    m,            \* the table's width
    table,        \* the table kuhn_match works on (the caller's `table`)
    orig,         \* the caller's untouched copy (`t` in main)
    marks,        \* the marking matrix
    row_covered,  \* row cover array
    col_covered,  \* column cover array
    prime,        \* the prime find_prime handed back
    zeroes,       \* the bit set of find_prime (or of the replay harness)
    assignment,   \* the array kuhn_assign returns
    pc,           \* the position of kuhn_match
    ref           \* the reference set of the bit set replay harness

vars == <<n, m, table, orig, marks, row_covered, col_covered, prime,
          zeroes, assignment, pc, ref>>

solver_vars == <<n, m, table, orig, marks, row_covered, col_covered, prime,
                 assignment>>

----------------------------------------------------------------------------
(* Bounds of the model *)

MaxDim == 3        \* largest width (and height) of the enumerated tables
MaxCells == 9      \* largest number of cells of the enumerated tables
MaxVal == 1        \* the cells of the enumerated tables are -1, 0 or MaxVal
MaxBadDim == 2     \* largest width of the enumerated tables of invalid shape
MaxLimbs == 4      \* largest number of limbs of a replayed bit set
MaxCalls == 8      \* largest number of replayed set/unset calls

----------------------------------------------------------------------------
(* Cell markings *)

UNMARKED == 0
MARKED == 1
PRIME == 2

LIMB_BITS == 64

Bits == 0 .. (LIMB_BITS - 1)

Rows == 0 .. (n - 1)
Cols == 0 .. (m - 1)

----------------------------------------------------------------------------
(* 64-bit two's complement words as sets of bit positions *)

\* ~x
BitNot(x) == Bits \ x

\* x & y
BitAnd(x, y) == x \cap y

\* x | y
BitOr(x, y) == x \cup y

\* 1LL << b
OneShl(b) == {b}

\* x + 1 (mod 2^64): the carry runs through the trailing ones
BitInc(x) ==
    IF x = Bits THEN {}
    ELSE LET k == CHOOSE b \in Bits : b \notin x /\ \A l \in 0 .. (b - 1) : l \in x
         IN  (x \ (0 .. (k - 1))) \cup {k}

\* -x
BitNeg(x) == BitInc(BitNot(x))

\* x >> k on a signed word (the sign bit is shifted in)
Sar(x, k) ==
    {b - k : b \in {l \in x : l >= k}}
        \cup (IF (LIMB_BITS - 1) \in x THEN (LIMB_BITS - k) .. (LIMB_BITS - 1) ELSE {})

\* the floored binary logarithm
lb(value) ==
    LET s32 == BitAnd(value, 32 .. 63) # {}
        v32 == IF s32 THEN Sar(value, 32) ELSE value
        s16 == BitAnd(v32, 16 .. 31) # {}
        v16 == IF s16 THEN Sar(v32, 16) ELSE v32
        s8  == BitAnd(v16, 8 .. 15) # {}
        v8  == IF s8 THEN Sar(v16, 8) ELSE v16
        s4  == BitAnd(v8, 4 .. 7) # {}
        v4  == IF s4 THEN Sar(v8, 4) ELSE v8
        s2  == BitAnd(v4, 2 .. 3) # {}
        v2  == IF s2 THEN Sar(v4, 2) ELSE v4
        s1  == BitAnd(v2, {1}) # {}
    IN  (IF s32 THEN 32 ELSE 0) + (IF s16 THEN 16 ELSE 0) + (IF s8 THEN 8 ELSE 0)
          + (IF s4 THEN 4 ELSE 0) + (IF s2 THEN 2 ELSE 0) + (IF s1 THEN 1 ELSE 0)

----------------------------------------------------------------------------
(* The bit set.  _buf holds c limbs, then prev, then next; `words` is the  *)
(* part of _buf behind the limbs, addressed by the word offset in _buf.    *)

LimbCount(size) == (size \div LIMB_BITS) + (IF size % LIMB_BITS # 0 THEN 1 ELSE 0)

\* word offset of prev[j] in _buf
PrevAt(c, j) == c + j

\* word offset of next[j] in _buf
NextAt(c, j) == c + c + j

bitset_create(size) ==
    LET c == LimbCount(size)
    IN  [c     |-> c,
         limbs |-> [l \in 0 .. (c - 1) |-> {}],
         first |-> 0,
         words |-> [w \in c .. (c + 2 * (c + 1) - 1) |-> 0]]

bitset_any(this) ==
    IF this.first = 0 THEN -1
    ELSE LET i == this.first - 1
         IN  lb(BitAnd(this.limbs[i], BitNeg(this.limbs[i]))) + i * LIMB_BITS

bitset_unset(this, i) ==
    LET j   == i \div LIMB_BITS
        old == this.limbs[j]
        new == BitAnd(old, BitNot(OneShl(i % LIMB_BITS)))
        l1  == [this.limbs EXCEPT ![j] = new]
    IN  IF (new = {}) # (old = {})
        THEN LET j1 == j + 1
                 p  == this.words[PrevAt(this.c, j1)]
                 nx == this.words[NextAt(this.c, j1)]
                 w1 == [this.words EXCEPT ![PrevAt(this.c, nx)] = p]
                 w2 == [w1 EXCEPT ![NextAt(this.c, p)] = nx]
             IN  [c     |-> this.c,
                  limbs |-> l1,
                  first |-> IF this.first = j1 THEN nx ELSE this.first,
                  words |-> w2]
        ELSE [this EXCEPT !.limbs = l1]

\* bitset_set that turns the bit on and never links the limb
bitset_set_no_link(this, i) ==
    [this EXCEPT !.limbs[i \div LIMB_BITS] = BitOr(@, OneShl(i % LIMB_BITS))]

\* bitset_set that links the limb whether or not it was empty
bitset_set_always_link(this, i) ==
    LET j   == i \div LIMB_BITS
        new == BitOr(this.limbs[j], OneShl(i % LIMB_BITS))
        j1  == j + 1
        w1  == [this.words EXCEPT ![PrevAt(this.c, this.first)] = j1]
        w2  == [w1 EXCEPT ![PrevAt(this.c, j1)] = 0]
        w3  == [w2 EXCEPT ![NextAt(this.c, j1)] = this.first]
    IN  [c     |-> this.c,
         limbs |-> [this.limbs EXCEPT ![j] = new],
         first |-> j1,
         words |-> w3]

bitset_set(this, i) ==
    LET j   == i \div LIMB_BITS
        old == this.limbs[j]
        new == BitOr(old, OneShl(i % LIMB_BITS))
        l1  == [this.limbs EXCEPT ![j] = new]
    IN  IF (new = {}) # (old = {})
        THEN LET j1 == j + 1
                 w1 == [this.words EXCEPT ![PrevAt(this.c, this.first)] = j1]
                 w2 == [w1 EXCEPT ![PrevAt(this.c, j1)] = 0]
                 w3 == [w2 EXCEPT ![NextAt(this.c, j1)] = this.first]
             IN  [c     |-> this.c,
                  limbs |-> l1,
                  first |-> j1,
                  words |-> w3]
        ELSE [this EXCEPT !.limbs = l1]

\* the indices whose bit is one
Members(this) ==
    UNION {{l * LIMB_BITS + b : b \in this.limbs[l]} : l \in 0 .. (this.c - 1)}

\* the state of find_prime's bit set outside a find_prime call
NoBitSet == bitset_create(0)

----------------------------------------------------------------------------
(* Row reduction *)

RECURSIVE RowMinLoop_flipped(_, _, _, _)
\* minimum search whose comparison is the wrong way round
RowMinLoop_flipped(ti, mm, j, min) ==
    IF j >= mm THEN min
    ELSE RowMinLoop_flipped(ti, mm, j + 1, IF min < ti[j] THEN ti[j] ELSE min)

RECURSIVE RowMinLoop(_, _, _, _)
\* for (j = 1; j < m; j++) if (min > ti[j]) min = ti[j];
RowMinLoop(ti, mm, j, min) ==
    IF j >= mm THEN min
    ELSE RowMinLoop(ti, mm, j + 1, IF min > ti[j] THEN ti[j] ELSE min)

\* row reduction that finds the minima but never subtracts them
kuhn_reduce_rows_keep(nn, mm, t) ==
    [i \in 0 .. (nn - 1) |-> [j \in 0 .. (mm - 1) |-> t[i][j]]]

\* row reduction that subtracts the row's first cell instead of its minimum
kuhn_reduce_rows_first(nn, mm, t) ==
    [i \in 0 .. (nn - 1) |-> [j \in 0 .. (mm - 1) |-> t[i][j] - t[i][0]]]

\* row reduction whose subtraction loop starts at j = 1
kuhn_reduce_rows_skip_first(nn, mm, t) ==
    [i \in 0 .. (nn - 1) |->
        [j \in 0 .. (mm - 1) |->
            IF j = 0 THEN t[i][j] ELSE t[i][j] - RowMinLoop(t[i], mm, 1, t[i][0])]]

kuhn_reduce_rows(nn, mm, t) ==
    [i \in 0 .. (nn - 1) |->
        [j \in 0 .. (mm - 1) |-> t[i][j] - RowMinLoop(t[i], mm, 1, t[i][0])]]

----------------------------------------------------------------------------
(* Initial marking *)

RECURSIVE MarkLoop(_, _, _, _, _, _, _)
\* the double loop of kuhn_mark, k = i * m + j
MarkLoop(nn, mm, t, k, mk, rc, cc) ==
    IF k >= nn * mm THEN mk
    ELSE LET i == k \div mm
             j == k % mm
         IN  IF ~rc[i] /\ ~cc[j] /\ t[i][j] = 0
             THEN MarkLoop(nn, mm, t, k + 1,
                           [mk EXCEPT ![i][j] = MARKED],
                           [rc EXCEPT ![i] = TRUE],
                           [cc EXCEPT ![j] = TRUE])
             ELSE MarkLoop(nn, mm, t, k + 1, mk, rc, cc)

\* initial marking whose scan starts one cell late
kuhn_mark_late(nn, mm, t) ==
    MarkLoop(nn, mm, t, 1,
             [i \in 0 .. (nn - 1) |-> [j \in 0 .. (mm - 1) |-> UNMARKED]],
             [i \in 0 .. (nn - 1) |-> FALSE],
             [j \in 0 .. (mm - 1) |-> FALSE])

\* initial marking that marks the first zero of every row, whatever its column
kuhn_mark_rows_only(nn, mm, t) ==
    [i \in 0 .. (nn - 1) |->
        [j \in 0 .. (mm - 1) |->
            IF t[i][j] = 0 /\ \A j2 \in 0 .. (j - 1) : t[i][j2] # 0
            THEN MARKED ELSE UNMARKED]]

kuhn_mark(nn, mm, t) ==
    MarkLoop(nn, mm, t, 0,
             [i \in 0 .. (nn - 1) |-> [j \in 0 .. (mm - 1) |-> UNMARKED]],
             [i \in 0 .. (nn - 1) |-> FALSE],
             [j \in 0 .. (mm - 1) |-> FALSE])

----------------------------------------------------------------------------
(* Completion test *)

\* column covers of a completion test that does not clear them first
IsDoneCovers_no_memset(nn, mm, mk, cc) ==
    [j \in 0 .. (mm - 1) |->
        IF \E i \in 0 .. (nn - 1) : mk[i][j] = MARKED THEN TRUE ELSE cc[j]]

\* the column covers kuhn_is_done leaves behind
IsDoneCovers(nn, mm, mk, cc) ==
    LET cleared == [j \in 0 .. (mm - 1) |-> FALSE]
    IN  [j \in 0 .. (mm - 1) |->
            IF \E i \in 0 .. (nn - 1) : mk[i][j] = MARKED THEN TRUE ELSE cleared[j]]

\* the value kuhn_is_done returns
kuhn_is_done(nn, mm, mk, cc) ==
    Cardinality({j \in 0 .. (mm - 1) : IsDoneCovers(nn, mm, mk, cc)[j]}) = nn

----------------------------------------------------------------------------
(* Prime search *)

RECURSIVE FillZeroes_any_column(_, _, _, _, _, _, _)
\* initial fill that tests the row cover and not the column cover
FillZeroes_any_column(nn, mm, t, rc, cc, k, bs) ==
    IF k >= nn * mm THEN bs
    ELSE LET i == k \div mm
             j == k % mm
         IN  FillZeroes_any_column(nn, mm, t, rc, cc, k + 1,
                                   IF ~rc[i] /\ t[i][j] = 0
                                   THEN bitset_set(bs, k) ELSE bs)

RECURSIVE FillZeroes(_, _, _, _, _, _, _)
\* the loop of kuhn_find_prime that fills the bit set, k = i * m + j
FillZeroes(nn, mm, t, rc, cc, k, bs) ==
    IF k >= nn * mm THEN bs
    ELSE LET i == k \div mm
             j == k % mm
         IN  FillZeroes(nn, mm, t, rc, cc, k + 1,
                        IF ~rc[i] /\ ~cc[j] /\ t[i][j] = 0
                        THEN bitset_set(bs, k) ELSE bs)

RECURSIVE StarInRow_prime(_, _, _, _)
\* row scan that looks for a PRIME cell where it should look for a MARKED one
StarInRow_prime(mrow, mm, j, found) ==
    IF j >= mm THEN found
    ELSE StarInRow_prime(mrow, mm, j + 1, IF mrow[j] = PRIME THEN j ELSE found)

RECURSIVE StarInRow(_, _, _, _)
\* the scan for a MARKED cell in a row: the last one found wins, -1 if none
StarInRow(mrow, mm, j, found) ==
    IF j >= mm THEN found
    ELSE StarInRow(mrow, mm, j + 1, IF mrow[j] = MARKED THEN j ELSE found)

\* if (!row_covered[i] && !col_covered[j]) bitset_set(...) else bitset_unset(...)
SetOrUnset(bs, rc, cc, mm, i, j) ==
    IF ~rc[i] /\ ~cc[j] THEN bitset_set(bs, i * mm + j)
    ELSE bitset_unset(bs, i * mm + j)

\* a cover step that skips the cells of the uncovered column
FixColumn_none(nn, mm, t, rc, cc, row, col, i, bs) == bs

RECURSIVE FixColumn(_, _, _, _, _, _, _, _, _)
\* for (i = 0; i < n; i++) if (!t[i][col] && row != i) ...
FixColumn(nn, mm, t, rc, cc, row, col, i, bs) ==
    IF i >= nn THEN bs
    ELSE FixColumn(nn, mm, t, rc, cc, row, col, i + 1,
                   IF t[i][col] = 0 /\ row # i
                   THEN SetOrUnset(bs, rc, cc, mm, i, col) ELSE bs)

RECURSIVE FixRow(_, _, _, _, _, _, _, _, _)
\* for (j = 0; j < m; j++) if (!t[row][j] && col != j) ...
FixRow(nn, mm, t, rc, cc, row, col, j, bs) ==
    IF j >= mm THEN bs
    ELSE FixRow(nn, mm, t, rc, cc, row, col, j + 1,
                IF t[row][j] = 0 /\ col # j
                THEN SetOrUnset(bs, rc, cc, mm, row, j) ELSE bs)

\* a cover step that leaves the bit set as it was
FixZeroes_none(nn, mm, t, rc, cc, row, col, bs) == bs

\* the incremental repair of the bit set after row was covered and col uncovered
FixZeroes(nn, mm, t, rc, cc, row, col, bs) ==
    LET b1 == FixColumn(nn, mm, t, rc, cc, row, col, 0, bs)
        b2 == FixRow(nn, mm, t, rc, cc, row, col, 0, b1)
    IN  SetOrUnset(b2, rc, cc, mm, row, col)

----------------------------------------------------------------------------
(* Path augmentation *)

RECURSIVE LastRowWith(_, _, _, _, _, _)
\* col_marks[j] (what == MARKED): the last row i whose cell in column j is marked
LastRowWith(mk, nn, j, what, i, found) ==
    IF i >= nn THEN found
    ELSE LastRowWith(mk, nn, j, what, i + 1, IF mk[i][j] = what THEN i ELSE found)

RECURSIVE LastColWith(_, _, _, _, _, _)
\* row_primes[i] (what == PRIME): the last column j whose cell in row i is primed
LastColWith(mk, mm, i, what, j, found) ==
    IF j >= mm THEN found
    ELSE LastColWith(mk, mm, i, what, j + 1, IF mk[i][j] = what THEN j ELSE found)

RECURSIVE AltWalk(_, _, _, _, _)
\* the while loop that builds alt[0..index]; alt is kept as a sequence, so
\* index = Len(alt) - 1.  The walk leaves the defined behaviour of the code
\* when it stores past alt[n * m - 1] or follows a row_primes entry of -1.
AltWalk(nn, mm, col_marks, row_primes, alt) ==
    LET row == col_marks[alt[Len(alt)].col]
    IN  IF row < 0 THEN [alt |-> alt, ub |-> FALSE]
        ELSE IF Len(alt) + 2 > nn * mm \/ row_primes[row] < 0
             THEN [alt |-> alt, ub |-> TRUE]
             ELSE AltWalk(nn, mm, col_marks, row_primes,
                          alt \o <<[row |-> row, col |-> alt[Len(alt)].col],
                                   [row |-> row, col |-> row_primes[row]]>>)

RECURSIVE AltFlip_only_mark(_, _, _)
\* flip loop that marks every cell of the path and unmarks none
AltFlip_only_mark(mk, alt, i) ==
    IF i > Len(alt) THEN mk
    ELSE AltFlip_only_mark([mk EXCEPT ![alt[i].row][alt[i].col] = MARKED], alt, i + 1)

RECURSIVE AltFlip_skip_first(_, _, _)
\* flip loop that leaves alt[0], the prime the path starts at, as it is
AltFlip_skip_first(mk, alt, i) ==
    IF i > Len(alt) THEN mk
    ELSE AltFlip_skip_first(
             IF i = 1 THEN mk
             ELSE [mk EXCEPT ![alt[i].row][alt[i].col] =
                      IF mk[alt[i].row][alt[i].col] = MARKED THEN UNMARKED ELSE MARKED],
             alt, i + 1)

RECURSIVE AltFlip(_, _, _)
\* for (i = 0; i <= index; i++) *markx = *markx == MARKED ? UNMARKED : MARKED;
AltFlip(mk, alt, i) ==
    IF i > Len(alt) THEN mk
    ELSE AltFlip([mk EXCEPT ![alt[i].row][alt[i].col] =
                      IF mk[alt[i].row][alt[i].col] = MARKED THEN UNMARKED ELSE MARKED],
                 alt, i + 1)

\* the path kuhn_alt_marks walks from the prime
AltPath(nn, mm, mk, pr) ==
    AltWalk(nn, mm,
            [j \in 0 .. (mm - 1) |-> LastRowWith(mk, nn, j, MARKED, 0, -1)],
            [i \in 0 .. (nn - 1) |-> LastColWith(mk, mm, i, PRIME, 0, -1)],
            <<[row |-> pr.row, col |-> pr.col]>>)

\* path augmentation that flips the path and leaves the PRIME marks in place
kuhn_alt_marks_keep_primes(nn, mm, mk, pr) ==
    AltFlip(mk, AltPath(nn, mm, mk, pr).alt, 1)

\* the marking matrix kuhn_alt_marks leaves behind
kuhn_alt_marks(nn, mm, mk, pr) ==
    LET flipped == AltFlip(mk, AltPath(nn, mm, mk, pr).alt, 1)
    IN  [i \in 0 .. (nn - 1) |->
            [j \in 0 .. (mm - 1) |->
                IF flipped[i][j] = PRIME THEN UNMARKED ELSE flipped[i][j]]]

----------------------------------------------------------------------------
(* Rebalancing *)

\* Cell min = 0x7FFFFFFFL
MIN_START == 2147483647

RECURSIVE UncoveredMinLoop(_, _, _, _, _, _, _)
\* the search for the least uncovered cell, k = i * m + j
UncoveredMinLoop(nn, mm, t, rc, cc, k, min) ==
    IF k >= nn * mm THEN min
    ELSE LET i == k \div mm
             j == k % mm
         IN  UncoveredMinLoop(nn, mm, t, rc, cc, k + 1,
                              IF ~rc[i] /\ ~cc[j] /\ min > t[i][j] THEN t[i][j] ELSE min)

\* minimum search that starts from 0 instead of 0x7FFFFFFF
UncoveredMin_from_zero(nn, mm, t, rc, cc) == UncoveredMinLoop(nn, mm, t, rc, cc, 0, 0)

UncoveredMin(nn, mm, t, rc, cc) == UncoveredMinLoop(nn, mm, t, rc, cc, 0, MIN_START)

\* rebalance that subtracts from the uncovered columns and never adds
kuhn_add_and_subtract_no_add(nn, mm, t, rc, cc) ==
    LET min == UncoveredMin(nn, mm, t, rc, cc)
    IN  [i \in 0 .. (nn - 1) |->
            [j \in 0 .. (mm - 1) |-> IF ~cc[j] THEN t[i][j] - min ELSE t[i][j]]]

\* rebalance whose subtraction is an else branch of the addition
kuhn_add_and_subtract_else(nn, mm, t, rc, cc) ==
    LET min == UncoveredMin(nn, mm, t, rc, cc)
    IN  [i \in 0 .. (nn - 1) |->
            [j \in 0 .. (mm - 1) |->
                IF rc[i] THEN t[i][j] + min
                ELSE IF ~cc[j] THEN t[i][j] - min ELSE t[i][j]]]

kuhn_add_and_subtract(nn, mm, t, rc, cc) ==
    LET min == UncoveredMin(nn, mm, t, rc, cc)
    IN  [i \in 0 .. (nn - 1) |->
            [j \in 0 .. (mm - 1) |->
                LET added == IF rc[i] THEN t[i][j] + min ELSE t[i][j]
                IN  IF ~cc[j] THEN added - min ELSE added]]

----------------------------------------------------------------------------
(* Reading off the assignment *)

\* the rows whose entry kuhn_assign never writes
UnwrittenRows(nn, mm, mk) ==
    {i \in 0 .. (nn - 1) : LastColWith(mk, mm, i, MARKED, 0, -1) < 0}

\* what an entry of the malloc'ed array may hold when it is never written
GarbagePositions(nn, mm) == {[row |-> r, col |-> c] : r \in 0 .. nn, c \in 0 .. mm}

\* assignment whose entries hold the column in .row and the row in .col
kuhn_assign_swapped(nn, mm, mk, garb) ==
    [i \in 0 .. (nn - 1) |->
        IF LastColWith(mk, mm, i, MARKED, 0, -1) >= 0
        THEN [row |-> LastColWith(mk, mm, i, MARKED, 0, -1), col |-> i]
        ELSE garb[i]]

\* garb gives the content of the entries that are never written
kuhn_assign(nn, mm, mk, garb) ==
    [i \in 0 .. (nn - 1) |->
        IF LastColWith(mk, mm, i, MARKED, 0, -1) >= 0
        THEN [row |-> i, col |-> LastColWith(mk, mm, i, MARKED, 0, -1)]
        ELSE garb[i]]

----------------------------------------------------------------------------
(* Control flow of kuhn_match *)

\* where kuhn_match goes once its work arrays are allocated
AfterEnter(nn, mm) == "reduce_rows"

\* no cell with uncovered row and column went from non-zero to zero
NoNewZero(nn, mm, t0, t1, rc, cc) ==
    ~\E i \in 0 .. (nn - 1), j \in 0 .. (mm - 1) :
        ~rc[i] /\ ~cc[j] /\ t0[i][j] # 0 /\ t1[i][j] = 0

\* a retry loop that gives up when the rebalance exposed no new zero
AfterRebalance_fatal(nn, mm, t0, t1, rc, cc) ==
    IF NoNewZero(nn, mm, t0, t1, rc, cc) THEN "error" ELSE "find_prime"

\* a loop that tests for completion after every rebalance
AfterRebalance_is_done(nn, mm, t0, t1, rc, cc) == "is_done"

\* where kuhn_match goes after kuhn_add_and_subtract turned t0 into t1
AfterRebalance(nn, mm, t0, t1, rc, cc) == "find_prime"

\* a row of m cells needs m >= 1: with m = 0 the read of *ti in
\* kuhn_reduce_rows is outside the (empty) allocation of the row
AfterReduce(nn, mm) == IF nn >= 1 /\ mm = 0 THEN {"mark", "segv"} ELSE {"mark"}

----------------------------------------------------------------------------
(* Initial states: the call kuhn_match(n, m, table) *)

Tables(nn, mm) == [0 .. (nn - 1) -> [0 .. (mm - 1) -> {-1, 0, MaxVal}]]

MkTable(rows) == [i \in 0 .. (Len(rows) - 1) |->
                     [j \in 0 .. (Len(rows[i + 1]) - 1) |-> rows[i + 1][j + 1]]]

Fixture1x1 == MkTable(<<<<7>>>>)
Fixture3x3 == MkTable(<<<<4, 1, 3>>, <<2, 0, 5>>, <<3, 2, 2>>>>)
Fixture2x4 == MkTable(<<<<5, 5, 5, 5>>, <<5, 5, 5, 5>>>>)

\* tables t[i][j] = (i + 1) * (j + 1), which need several rebalances
FixtureProduct3x3 == MkTable(<<<<1, 2, 3>>, <<2, 4, 6>>, <<3, 6, 9>>>>)
FixtureProduct4x4 ==
    MkTable(<<<<1, 2, 3, 4>>, <<2, 4, 6, 8>>, <<3, 6, 9, 12>>, <<4, 8, 12, 16>>>>)

Fixtures == {Fixture1x1, Fixture3x3, Fixture2x4, FixtureProduct3x3, FixtureProduct4x4}

Height(t) == Cardinality(DOMAIN t)
Width(t) == IF DOMAIN t = {} THEN 0 ELSE Cardinality(DOMAIN t[0])

ValidShapes ==
    {sh \in (1 .. MaxDim) \X (1 .. MaxDim) : sh[1] <= sh[2] /\ sh[1] * sh[2] <= MaxCells}

\* empty tables and tables higher than wide
InvalidShapes ==
    {sh \in (0 .. (MaxBadDim + 1)) \X (0 .. MaxBadDim) :
        /\ sh[1] = 0 \/ sh[2] = 0 \/ sh[1] > sh[2]
        /\ sh[1] * sh[2] <= MaxCells}

\* the reference array of the bit set replay, unused by the solver
NoRef == [size |-> 0, bits |-> {}, calls |-> 0]

Call(nn, mm, t) ==
    /\ n = nn
    /\ m = mm
    /\ table = t
    /\ orig = t
    /\ marks = [i \in 0 .. (nn - 1) |-> [j \in 0 .. (mm - 1) |-> UNMARKED]]
    /\ row_covered = [i \in 0 .. (nn - 1) |-> FALSE]
    /\ col_covered = [j \in 0 .. (mm - 1) |-> FALSE]
    /\ prime = [row |-> 0, col |-> 0]
    /\ zeroes = NoBitSet
    /\ assignment = <<>>
    /\ pc = "call"
    /\ ref = NoRef

Init ==
    \/ \E sh \in ValidShapes : \E t \in Tables(sh[1], sh[2]) : Call(sh[1], sh[2], t)
    \/ \E t \in Fixtures : Call(Height(t), Width(t), t)

InitShape ==
    \E sh \in InvalidShapes : \E t \in Tables(sh[1], sh[2]) : Call(sh[1], sh[2], t)

----------------------------------------------------------------------------
(* The steps of kuhn_match *)

KuhnMatchEnter ==
    /\ pc = "call"
    /\ row_covered' = [i \in Rows |-> FALSE]
    /\ col_covered' = [j \in Cols |-> FALSE]
    /\ pc' = AfterEnter(n, m)
    /\ UNCHANGED <<n, m, table, orig, marks, prime, zeroes, assignment, ref>>

KuhnReduceRows ==
    /\ pc = "reduce_rows"
    /\ table' = kuhn_reduce_rows(n, m, table)
    /\ pc' \in AfterReduce(n, m)
    /\ UNCHANGED <<n, m, orig, marks, row_covered, col_covered, prime, zeroes,
                   assignment, ref>>

KuhnMark ==
    /\ pc = "mark"
    /\ marks' = kuhn_mark(n, m, table)
    /\ pc' = "is_done"
    /\ UNCHANGED <<n, m, table, orig, row_covered, col_covered, prime, zeroes,
                   assignment, ref>>

KuhnIsDone ==
    /\ pc = "is_done"
    /\ col_covered' = IsDoneCovers(n, m, marks, col_covered)
    /\ pc' = IF kuhn_is_done(n, m, marks, col_covered) THEN "assign" ELSE "find_prime"
    /\ UNCHANGED <<n, m, table, orig, marks, row_covered, prime, zeroes,
                   assignment, ref>>

\* kuhn_find_prime up to the head of its for (;;) loop
FindPrimeFill ==
    /\ pc = "find_prime"
    /\ zeroes' = FillZeroes(n, m, table, row_covered, col_covered, 0, bitset_create(n * m))
    /\ pc' = "any"
    /\ UNCHANGED <<n, m, table, orig, marks, row_covered, col_covered, prime,
                   assignment, ref>>

\* p = bitset_any(zeroes) is negative: return 0
FindPrimeNone(p) ==
    /\ pc = "any"
    /\ p < 0
    /\ zeroes' = NoBitSet
    /\ pc' = "add_and_subtract"
    /\ UNCHANGED <<n, m, table, orig, marks, row_covered, col_covered, prime,
                   assignment, ref>>

\* cover step that covers the row and leaves the column of the MARKED cell
\* covered
FindPrimeCover_keep_col(p) ==
    /\ pc = "any"
    /\ p >= 0
    /\ LET row == p \div m
           mk1 == [marks EXCEPT ![row][p % m] = PRIME]
           col == StarInRow(mk1[row], m, 0, -1)
       IN  /\ col >= 0
           /\ marks' = mk1
           /\ row_covered' = [row_covered EXCEPT ![row] = TRUE]
           /\ col_covered' = col_covered
           /\ zeroes' = FixZeroes(n, m, table, row_covered', col_covered', row, col, zeroes)
    /\ pc' = "any"
    /\ UNCHANGED <<n, m, table, orig, prime, assignment, ref>>

\* cover step that covers and uncovers but leaves the picked cell unprimed
FindPrimeCover_no_prime(p) ==
    /\ pc = "any"
    /\ p >= 0
    /\ LET row == p \div m
           col == StarInRow(marks[row], m, 0, -1)
       IN  /\ col >= 0
           /\ marks' = marks
           /\ row_covered' = [row_covered EXCEPT ![row] = TRUE]
           /\ col_covered' = [col_covered EXCEPT ![col] = FALSE]
           /\ zeroes' = FixZeroes(n, m, table, row_covered', col_covered', row, col, zeroes)
    /\ pc' = "any"
    /\ UNCHANGED <<n, m, table, orig, prime, assignment, ref>>

\* the primed cell's row holds a MARKED cell: cover the row, uncover the
\* column of the MARKED cell, repair the bit set, and loop
FindPrimeCover(p) ==
    /\ pc = "any"
    /\ p >= 0
    /\ LET row == p \div m
           mk1 == [marks EXCEPT ![row][p % m] = PRIME]
           col == StarInRow(mk1[row], m, 0, -1)
       IN  /\ col >= 0
           /\ marks' = mk1
           /\ row_covered' = [row_covered EXCEPT ![row] = TRUE]
           /\ col_covered' = [col_covered EXCEPT ![col] = FALSE]
           /\ zeroes' = FixZeroes(n, m, table, row_covered', col_covered', row, col, zeroes)
    /\ pc' = "any"
    /\ UNCHANGED <<n, m, table, orig, prime, assignment, ref>>

\* the primed cell's row holds no MARKED cell: return 1 with the prime
FindPrimeFound(p) ==
    /\ pc = "any"
    /\ p >= 0
    /\ LET row == p \div m
           mk1 == [marks EXCEPT ![row][p % m] = PRIME]
       IN  /\ StarInRow(mk1[row], m, 0, -1) < 0
           /\ marks' = mk1
           /\ prime' = [row |-> row, col |-> p % m]
    /\ zeroes' = NoBitSet
    /\ pc' = "alt_marks"
    /\ UNCHANGED <<n, m, table, orig, row_covered, col_covered, assignment, ref>>

\* one pass through the for (;;) loop of kuhn_find_prime with any() = p
FindPrimeStep(p) == FindPrimeNone(p) \/ FindPrimeCover(p) \/ FindPrimeFound(p)

FindPrimeLoop == FindPrimeStep(bitset_any(zeroes))

\* rebalance followed by a reset of the covers
KuhnAddAndSubtract_reset ==
    /\ pc = "add_and_subtract"
    /\ table' = kuhn_add_and_subtract(n, m, table, row_covered, col_covered)
    /\ row_covered' = [i \in Rows |-> FALSE]
    /\ col_covered' = [j \in Cols |-> FALSE]
    /\ pc' = AfterRebalance(n, m, table, table', row_covered, col_covered)
    /\ UNCHANGED <<n, m, orig, marks, prime, zeroes, assignment, ref>>

KuhnAddAndSubtract ==
    /\ pc = "add_and_subtract"
    /\ table' = kuhn_add_and_subtract(n, m, table, row_covered, col_covered)
    /\ pc' = AfterRebalance(n, m, table, table', row_covered, col_covered)
    /\ UNCHANGED <<n, m, orig, marks, row_covered, col_covered, prime, zeroes,
                   assignment, ref>>

\* kuhn_alt_marks and the two memsets that follow it
KuhnAltMarks ==
    /\ pc = "alt_marks"
    /\ IF AltPath(n, m, marks, prime).ub
       THEN /\ pc' = "ub"
            /\ UNCHANGED <<marks, row_covered, col_covered>>
       ELSE /\ marks' = kuhn_alt_marks(n, m, marks, prime)
            /\ row_covered' = [i \in Rows |-> FALSE]
            /\ col_covered' = [j \in Cols |-> FALSE]
            /\ pc' = "is_done"
    /\ UNCHANGED <<n, m, table, orig, prime, zeroes, assignment, ref>>

KuhnAssign ==
    /\ pc = "assign"
    /\ \E garb \in [UnwrittenRows(n, m, marks) -> GarbagePositions(n, m)] :
           assignment' = kuhn_assign(n, m, marks, garb)
    /\ pc' = "done"
    /\ UNCHANGED <<n, m, table, orig, marks, row_covered, col_covered, prime,
                   zeroes, ref>>

Next ==
    \/ KuhnMatchEnter
    \/ KuhnReduceRows
    \/ KuhnMark
    \/ KuhnIsDone
    \/ FindPrimeFill
    \/ FindPrimeLoop
    \/ KuhnAddAndSubtract
    \/ KuhnAltMarks
    \/ KuhnAssign

Spec == Init /\ [][Next]_vars

\* the solver called with a table of invalid shape
SpecShape == InitShape /\ [][Next]_vars

----------------------------------------------------------------------------
(* The solver with an unspecified any(): some member of the zero set *)

ArbitraryAny(this) == IF Members(this) = {} THEN {-1} ELSE Members(this)

FindPrimeLoopAny == \E p \in ArbitraryAny(zeroes) : FindPrimeStep(p)

NextAny ==
    \/ KuhnMatchEnter
    \/ KuhnReduceRows
    \/ KuhnMark
    \/ KuhnIsDone
    \/ FindPrimeFill
    \/ FindPrimeLoopAny
    \/ KuhnAddAndSubtract
    \/ KuhnAltMarks
    \/ KuhnAssign

SpecAny == Init /\ [][NextAny]_vars

----------------------------------------------------------------------------
(* Replay of set/unset calls on a bit set against a reference boolean array *)
(* The reference array is kept as its size and the set of its true entries; *)
(* the replay stops at the first call after which any() and the array       *)
(* disagree.                                                                *)

ReplaySizes == {LIMB_BITS * k : k \in 1 .. MaxLimbs} \cup {1, LIMB_BITS + 1}

\* the indices the replay uses: the first bit of every limb, and the last
\* bit of the first limb
ReplayIndices ==
    {i \in 0 .. (ref.size - 1) : i % LIMB_BITS = 0 \/ i = LIMB_BITS - 1}

\* any() returns an index whose reference entry is true, or -1 when none is
AnyAgrees(bs, r) ==
    IF bitset_any(bs) < 0 THEN r.bits = {} ELSE bitset_any(bs) \in r.bits

InitBitSet ==
    /\ n = 0
    /\ m = 0
    /\ table = <<>>
    /\ orig = <<>>
    /\ marks = <<>>
    /\ row_covered = <<>>
    /\ col_covered = <<>>
    /\ prime = [row |-> 0, col |-> 0]
    /\ assignment = <<>>
    /\ pc = "replay"
    /\ \E size \in ReplaySizes :
           /\ zeroes = bitset_create(size)
           /\ ref = [size |-> size, bits |-> {}, calls |-> 0]

ReplaySet ==
    /\ pc = "replay"
    /\ ref.calls < MaxCalls
    /\ \E i \in ReplayIndices :
           /\ zeroes' = bitset_set(zeroes, i)
           /\ ref' = [ref EXCEPT !.bits = @ \cup {i}, !.calls = @ + 1]
    /\ pc' = IF AnyAgrees(zeroes', ref') THEN "replay" ELSE "mismatch"
    /\ UNCHANGED solver_vars

ReplayUnset ==
    /\ pc = "replay"
    /\ ref.calls < MaxCalls
    /\ \E i \in ReplayIndices :
           /\ zeroes' = bitset_unset(zeroes, i)
           /\ ref' = [ref EXCEPT !.bits = @ \ {i}, !.calls = @ + 1]
    /\ pc' = IF AnyAgrees(zeroes', ref') THEN "replay" ELSE "mismatch"
    /\ UNCHANGED solver_vars

NextBitSet == ReplaySet \/ ReplayUnset

SpecBitSet == InitBitSet /\ [][NextBitSet]_vars

----------------------------------------------------------------------------
(* Matchings and their cost *)

\* the assignment has one entry per row and every entry is a cell of the table
InRange(asg) ==
    /\ DOMAIN asg = Rows
    /\ \A i \in Rows : asg[i].row \in Rows /\ asg[i].col \in Cols

RECURSIVE SumTo(_, _, _)
\* the sum loop of main: t[assignment[i].row][assignment[i].col] for i < k
SumTo(t, asg, k) ==
    IF k = 0 THEN 0
    ELSE SumTo(t, asg, k - 1) + t[asg[k - 1].row][asg[k - 1].col]

AssignmentCost(t, asg) == SumTo(t, asg, n)

\* every way to give the rows pairwise distinct columns
Matchings ==
    {[i \in Rows |-> [row |-> i, col |-> f[i]]] :
        f \in {g \in [Rows -> Cols] : \A i1, i2 \in Rows : i1 # i2 => g[i1] # g[i2]}}

\* one entry per row, entry i in row i, and pairwise distinct columns
IsMatching(asg) ==
    /\ InRange(asg)
    /\ \A i \in Rows : asg[i].row = i
    /\ \A i1, i2 \in Rows : i1 # i2 => asg[i1].col # asg[i2].col

\* the least cost of a matching of t, by enumeration
MinCost(t) ==
    LET costs == {AssignmentCost(t, f) : f \in Matchings}
    IN  CHOOSE c \in costs : \A d \in costs : c <= d

StarsInRow(i) == {j \in Cols : marks[i][j] = MARKED}
StarsInCol(j) == {i \in Rows : marks[i][j] = MARKED}
StarCount == Cardinality({c \in Rows \X Cols : marks[c[1]][c[2]] = MARKED})
PrimeCount == Cardinality({c \in Rows \X Cols : marks[c[1]][c[2]] = PRIME})

ValidShape == 1 <= n /\ n <= m
InvalidShape == n = 0 \/ m = 0 \/ n > m

\* the cells with uncovered row and uncovered column
Uncovered == {c \in Rows \X Cols : ~row_covered[c[1]] /\ ~col_covered[c[2]]}

----------------------------------------------------------------------------
(* Properties of kuhn_match *)

\* the row-reduced input, before any rebalance
Reduced == kuhn_reduce_rows(n, m, orig)

\* C1: the returned assignment has minimal total cost: the sum of the
\* original values over the returned pairs equals the minimum of that sum
\* over all assignments of the rows to pairwise distinct columns.
C1_MinimalCost ==
    pc = "done" =>
        /\ InRange(assignment)
        /\ AssignmentCost(orig, assignment) = MinCost(orig)

\* a 3 x 3 solve that needed a rebalance and ends with a non-zero cost
C1_Witness ==
    /\ pc = "done"
    /\ n = 3 /\ m = 3
    /\ table # Reduced
    /\ AssignmentCost(orig, assignment) > 0

\* C2: kuhn_match returns n pairs; the i-th pair has row i and the column
\* of the single STAR of row i, and the n columns are pairwise distinct.
C2_OnePairPerRow ==
    pc = "done" =>
        /\ DOMAIN assignment = Rows
        /\ \A i \in Rows :
              /\ assignment[i].row = i
              /\ StarsInRow(i) = {assignment[i].col}
        /\ \A i1, i2 \in Rows : i1 # i2 => assignment[i1].col # assignment[i2].col

\* a 2 x 3 solve whose rows got their columns in descending order
C2_Witness ==
    /\ pc = "done"
    /\ n = 2 /\ m = 3
    /\ assignment[0].col > assignment[1].col

\* the position of kuhn_match as a number that every step lowers while the
\* number of STARs and the number of uncovered rows stay the same
Stage ==
    CASE pc = "call" -> 11
      [] pc = "reduce_rows" -> 10
      [] pc = "mark" -> 9
      [] pc = "is_done" -> 8
      [] pc = "find_prime" -> IF \E c \in Uncovered : table[c[1]][c[2]] = 0 THEN 4 ELSE 7
      [] pc = "any" -> IF \E c \in Uncovered : table[c[1]][c[2]] = 0 THEN 3 ELSE 6
      [] pc = "add_and_subtract" -> 5
      [] pc = "alt_marks" -> 2
      [] pc = "assign" -> 1
      [] OTHER -> 0

\* a measure of the work left: the rows without STAR first, then the
\* uncovered rows, then the stage
Rank ==
    ((n - StarCount) * (n + 1) + Cardinality({i \in Rows : ~row_covered[i]})) * 12 + Stage

\* kuhn_match is at a position that has a next step, or at its end
Running ==
    pc \in {"call", "reduce_rows", "mark", "is_done", "find_prime", "any",
            "add_and_subtract", "alt_marks", "assign", "done"}

C4_AnyMemberWorks ==
    /\ [](Rank >= 0 /\ Running)
    /\ [][Rank' < Rank]_vars
    /\ [](pc = "done" =>
            /\ IsMatching(assignment)
            /\ AssignmentCost(orig, assignment) = MinCost(orig))

\* find_prime returned the first cell it picked, and that cell is not the
\* uncovered zero of least index, which the lowest-bit any() would have picked
C4_Witness ==
    /\ pc = "alt_marks"
    /\ PrimeCount = 1
    /\ \E c \in Uncovered :
          /\ table[c[1]][c[2]] = 0
          /\ c[1] * m + c[2] < prime.row * m + prime.col

\* C5: replayed against a reference boolean array, any() returns an index
\* whose reference entry is true, and -1 exactly when every entry is false.
C5_AnyAgreesWithReference ==
    pc \in {"replay", "mismatch"} => AnyAgrees(zeroes, ref)

\* a replay on a bit set of four limbs after which any() reports the set
\* empty while an entry of the reference array is true
C5_Witness ==
    /\ pc = "mismatch"
    /\ ref.size = 4 * LIMB_BITS
    /\ bitset_any(zeroes) < 0
    /\ ref.bits # {}

\* C6: a call with an invalid shape (n > m, n = 0 or m = 0) fails with an
\* error before any work begins: kuhn_match never gets past its entry, so no
\* row reduction, marking, search or rebalance runs on such a table.
C6_InvalidShapeRejected ==
    InvalidShape => pc \in {"call", "error"}

\* a table higher than wide after its row reduction changed a cell
C6_Witness ==
    /\ n > m /\ m >= 1
    /\ pc = "mark"
    /\ table # orig

\* C7 as stated: the caller's table holds the same values after the call.
C7_TableUnchanged ==
    pc = "done" => table = orig

\* C7 amended: kuhn_match works on the caller's table in place; from the row
\* reduction on, and when the call has returned, the table differs from the
\* values it held before the call whenever some row's minimum was not 0.
C7_TableReducedInPlace ==
    (/\ pc \notin {"call", "reduce_rows"}
     /\ \E i \in Rows : RowMinLoop(orig[i], m, 1, orig[i][0]) # 0)
        => table # orig

\* the call has returned and left other values in the caller's table
C7_Witness ==
    /\ pc = "done"
    /\ n = 2
    /\ table # orig
    /\ table = Reduced

C9_OneByOne ==
    orig = Fixture1x1 =>
        /\ pc \in {"call", "reduce_rows", "mark", "is_done", "assign", "done"}
        /\ pc = "done" =>
              /\ assignment = [i \in {0} |-> [row |-> 0, col |-> 0]]
              /\ AssignmentCost(orig, assignment) = 7

\* the solve of [[7]] has returned
C9_Witness ==
    /\ orig = Fixture1x1
    /\ pc = "done"
    /\ table[0][0] = 0

\* C10: between the operations of a solve every row holds at most one STAR
\* and every column holds at most one STAR.
C10_StarsIndependent ==
    /\ \A i \in Rows : Cardinality(StarsInRow(i)) <= 1
    /\ \A j \in Cols : Cardinality(StarsInCol(j)) <= 1

\* three stars after an augmentation that moved a star of the initial marking
C10_Witness ==
    /\ pc = "is_done"
    /\ StarCount = 3
    /\ \E i \in Rows, j \in Cols :
          kuhn_mark(n, m, Reduced)[i][j] = MARKED /\ marks[i][j] # MARKED

----------------------------------------------------------------------------
(* Properties of kuhn_alt_marks *)

\* the cells alt[0..index] of the path kuhn_alt_marks is about to flip
PathCells == AltPath(n, m, marks, prime).alt

\* C11: every run of kuhn_alt_marks leaves exactly one more STAR in the grid
\* than there was before it: the path it flips has k + 1 primed cells (at
\* alt[0], alt[2], ...) and k starred cells (at alt[1], alt[3], ...).
C11_OneMoreStar ==
    /\ [](pc = "alt_marks" =>
            /\ Len(PathCells) % 2 = 1
            /\ \A i \in 1 .. Len(PathCells) :
                  marks[PathCells[i].row][PathCells[i].col] =
                      (IF i % 2 = 1 THEN PRIME ELSE MARKED)
            /\ \A i1, i2 \in 1 .. Len(PathCells) : i1 # i2 => PathCells[i1] # PathCells[i2])
    /\ [][pc = "alt_marks" => StarCount' = StarCount + 1]_vars

\* kuhn_alt_marks has flipped a path of at least five cells: two rows lost
\* the STAR the initial marking gave them and hold a STAR elsewhere
C11_Witness ==
    /\ pc = "is_done"
    /\ StarCount = 3
    /\ Cardinality({i \in Rows : \E j \in Cols :
           /\ kuhn_mark(n, m, Reduced)[i][j] = MARKED
           /\ marks[i][j] = UNMARKED}) >= 2

\* C12: at every evaluation of kuhn_is_done (the first, and each one that ends
\* an augmenting phase) no cell is PRIME and every row cover and every column
\* cover is false on entry.
C12_PhaseEndsClean ==
    pc = "is_done" =>
        /\ PrimeCount = 0
        /\ \A i \in Rows : ~row_covered[i]
        /\ \A j \in Cols : ~col_covered[j]

\* kuhn_is_done is entered after a phase that primed cells, covered a row and
\* rebalanced the table
C12_Witness ==
    /\ pc = "is_done"
    /\ table # Reduced
    /\ marks # kuhn_mark(n, m, Reduced)
    /\ \E i \in Rows : StarsInRow(i) = {}

----------------------------------------------------------------------------
(* Properties of kuhn_find_prime *)

\* the indices row * m + col of the zero cells with uncovered row and column
UncoveredZeroes == {c[1] * m + c[2] : c \in {d \in Uncovered : table[d[1]][d[2]] = 0}}

\* C13: at every call of any() in kuhn_find_prime (after the initial fill and
\* after every repair that follows a cover change) the bit set holds exactly
\* the indices row * m + col of the zero cells whose row and column are both
\* uncovered: no stale member and no missing member.
C13_ZeroSetExact ==
    pc = "any" => Members(zeroes) = UncoveredZeroes

\* any() is called after a cover step that put a zero of the uncovered
\* column into the bit set
C13_Witness ==
    /\ pc = "any"
    /\ \E i \in Rows : row_covered[i]
    /\ \E c \in Uncovered :
          /\ table[c[1]][c[2]] = 0
          /\ \E i \in Rows : marks[i][c[2]] = MARKED /\ row_covered[i]

----------------------------------------------------------------------------
(* Properties of the bit set's list of non-empty limbs *)

RECURSIVE ChainFrom(_, _, _)
\* the limbs (numbered from 1) met from limb j on by following the next
\* links, until the link is 0 or a limb is met twice
ChainFrom(this, j, seen) ==
    IF j = 0 THEN [limbs |-> seen, cyclic |-> FALSE]
    ELSE IF j \in seen THEN [limbs |-> seen, cyclic |-> TRUE]
    ELSE ChainFrom(this, this.words[NextAt(this.c, j)], seen \cup {j})

\* the chain that starts at `first`
Chain(this) == ChainFrom(this, this.first, {})

\* the limbs (numbered from 1) with at least one bit set
NonEmptyLimbs(this) == {l + 1 : l \in {k \in 0 .. (this.c - 1) : this.limbs[k] # {}}}

\* C15: after any sequence of set/unset calls a limb is reachable from
\* `first` along the next links if and only if it has a bit set, the chain
\* is acyclic (so it visits each such limb once), and `first` is 0 exactly
\* when every limb is zero.
C15_ChainIsNonEmptyLimbs ==
    pc \in {"replay", "mismatch"} =>
        /\ ~Chain(zeroes).cyclic
        /\ Chain(zeroes).limbs = NonEmptyLimbs(zeroes)
        /\ (zeroes.first = 0) = (NonEmptyLimbs(zeroes) = {})

\* a replay on a bit set of four limbs after which a limb with a bit set is
\* no longer on the chain
C15_Witness ==
    /\ pc \in {"replay", "mismatch"}
    /\ ref.size = 4 * LIMB_BITS
    /\ ~Chain(zeroes).cyclic
    /\ NonEmptyLimbs(zeroes) \ Chain(zeroes).limbs # {}

C17_ReturnedPrime ==
    pc = "alt_marks" =>
        /\ prime.row \in Rows /\ prime.col \in Cols
        /\ marks[prime.row][prime.col] = PRIME
        /\ table[prime.row][prime.col] = 0
        /\ ~row_covered[prime.row]
        /\ ~col_covered[prime.col]
        /\ StarsInRow(prime.row) = {}

\* kuhn_find_prime returned a prime in a column that a cover step of the
\* same call had uncovered
C17_Witness ==
    /\ pc = "alt_marks"
    /\ \E i \in Rows :
          /\ row_covered[i]
          /\ marks[i][prime.col] = MARKED

----------------------------------------------------------------------------
(* Properties of kuhn_add_and_subtract *)

\* the values of the cells with uncovered row and uncovered column
UncoveredValues == {table[c[1]][c[2]] : c \in Uncovered}

\* the least of them
LeastUncovered == CHOOSE v \in UncoveredValues : \A w \in UncoveredValues : v <= w

\* C18: a rebalance with d the least value of the cells whose row and column
\* are both uncovered lowers every cell in an uncovered row and uncovered
\* column by d, raises every cell in a covered row and covered column by d,
\* and leaves every cell with exactly one of its row and column covered.
C18_RebalanceCells ==
    [][pc = "add_and_subtract" =>
          /\ UncoveredValues # {}
          /\ \A i \in Rows, j \in Cols :
                table'[i][j] =
                    IF ~row_covered[i] /\ ~col_covered[j] THEN table[i][j] - LeastUncovered
                    ELSE IF row_covered[i] /\ col_covered[j] THEN table[i][j] + LeastUncovered
                    ELSE table[i][j]]_vars

\* a rebalance has run with a covered row and a covered column, so with
\* cells of all four kinds
C18_Witness ==
    /\ pc = "find_prime"
    /\ \E i \in Rows : row_covered[i]
    /\ \E j \in Cols : col_covered[j]
    /\ table # Reduced

----------------------------------------------------------------------------
(* kuhn_add_and_subtract over the full width of Cell.  Cell is signed long,
   64 bits wide on LP64, and the search for the minimum starts from
   0x7FFFFFFF.  A wide cell is the pair hi, lo of its value
   hi * WideBase + lo with 0 <= lo < WideBase; the tables below stay far
   from the ends of the 64-bit range, so no operation wraps. *)

MaxWideHi == 4      \* largest hi of the enumerated wide cells

WideBase == (MIN_START \div 2) + 1

WideZero == [hi |-> 0, lo |-> 0]

WideOne == [hi |-> 0, lo |-> 1]

\* Cell min = 0x7FFFFFFFL
WideMinStart == [hi |-> 1, lo |-> WideBase - 1]

\* a < b
WideLess(a, b) == a.hi < b.hi \/ (a.hi = b.hi /\ a.lo < b.lo)

\* a + b
WideAdd(a, b) ==
    IF a.lo + b.lo >= WideBase
    THEN [hi |-> a.hi + b.hi + 1, lo |-> a.lo + b.lo - WideBase]
    ELSE [hi |-> a.hi + b.hi, lo |-> a.lo + b.lo]

\* a - b
WideSub(a, b) ==
    IF a.lo < b.lo
    THEN [hi |-> a.hi - b.hi - 1, lo |-> a.lo - b.lo + WideBase]
    ELSE [hi |-> a.hi - b.hi, lo |-> a.lo - b.lo]

RECURSIVE WideMinLoop(_, _, _, _, _, _, _)
\* the search for the least uncovered cell, k = i * m + j
WideMinLoop(nn, mm, t, rc, cc, k, min) ==
    IF k >= nn * mm THEN min
    ELSE LET i == k \div mm
             j == k % mm
         IN  WideMinLoop(nn, mm, t, rc, cc, k + 1,
                         IF ~rc[i] /\ ~cc[j] /\ WideLess(t[i][j], min) THEN t[i][j] ELSE min)

WideMin(nn, mm, t, rc, cc) == WideMinLoop(nn, mm, t, rc, cc, 0, WideMinStart)

kuhn_add_and_subtract_wide(nn, mm, t, rc, cc) ==
    LET min == WideMin(nn, mm, t, rc, cc)
    IN  [i \in 0 .. (nn - 1) |->
            [j \in 0 .. (mm - 1) |->
                LET added == IF rc[i] THEN WideAdd(t[i][j], min) ELSE t[i][j]
                IN  IF ~cc[j] THEN WideSub(added, min) ELSE added]]

\* kuhn_find_prime finds no uncovered zero
WideNoUncoveredZero ==
    \A i \in Rows, j \in Cols :
        (~row_covered[i] /\ ~col_covered[j]) => table[i][j] # WideZero

\* the positive cell values of the enumerated tables, on both sides of
\* 0x7FFFFFFF
WideValues ==
    {[hi |-> h, lo |-> l] : h \in 0 .. MaxWideHi, l \in {0, 1, WideBase - 1}} \ {WideZero}

\* kuhn_match(2, 2, [[0, a], [0, b]]) at its first rebalance: (0, 0) is
\* MARKED and column 0 is covered
InitWide2x2 ==
    \E a, b \in WideValues :
        /\ n = 2
        /\ m = 2
        /\ table = MkTable(<<<<WideZero, a>>, <<WideZero, b>>>>)
        /\ orig = table
        /\ marks = MkTable(<<<<MARKED, UNMARKED>>, <<UNMARKED, UNMARKED>>>>)
        /\ row_covered = [i \in 0 .. 1 |-> FALSE]
        /\ col_covered = [j \in 0 .. 1 |-> j = 0]

\* kuhn_match(3, 3, [[0, 0, 1], [y, 0, z + 1], [w, 0, v + 1]]) at its second
\* rebalance: (0, 0) and (1, 1) are MARKED, the first rebalance subtracted 1
\* from column 2, (0, 2) is PRIME, row 0 and column 1 are covered
InitWide3x3 ==
    \E y, z, w, v \in WideValues :
        /\ n = 3
        /\ m = 3
        /\ table = MkTable(<<<<WideZero, WideZero, WideZero>>,
                             <<y, WideZero, z>>,
                             <<w, WideZero, v>>>>)
        /\ orig = MkTable(<<<<WideZero, WideZero, WideOne>>,
                            <<y, WideZero, WideAdd(z, WideOne)>>,
                            <<w, WideZero, WideAdd(v, WideOne)>>>>)
        /\ marks = MkTable(<<<<MARKED, UNMARKED, PRIME>>,
                             <<UNMARKED, MARKED, UNMARKED>>,
                             <<UNMARKED, UNMARKED, UNMARKED>>>>)
        /\ row_covered = [i \in 0 .. 2 |-> i = 0]
        /\ col_covered = [j \in 0 .. 2 |-> j = 1]

InitWide ==
    /\ InitWide2x2 \/ InitWide3x3
    /\ prime = [row |-> 0, col |-> 0]
    /\ zeroes = NoBitSet
    /\ assignment = <<>>
    /\ pc = "add_and_subtract"
    /\ ref = NoRef

\* kuhn_add_and_subtract
WideAddAndSubtract ==
    /\ pc = "add_and_subtract"
    /\ table' = kuhn_add_and_subtract_wide(n, m, table, row_covered, col_covered)
    /\ pc' = "find_prime"
    /\ UNCHANGED <<n, m, orig, marks, row_covered, col_covered, prime, zeroes,
                   assignment, ref>>

\* kuhn_find_prime on a table with no uncovered zero: the bit set stays
\* empty, nothing is primed or covered, and the loop of kuhn_match calls
\* kuhn_add_and_subtract again
WideFindPrimeNone ==
    /\ pc = "find_prime"
    /\ WideNoUncoveredZero
    /\ pc' = "add_and_subtract"
    /\ UNCHANGED <<n, m, table, orig, marks, row_covered, col_covered, prime,
                   zeroes, assignment, ref>>

NextWide == WideAddAndSubtract \/ WideFindPrimeNone

SpecWide == InitWide /\ [][NextWide]_vars

\* C19: every rebalance introduces at least one new zero among the cells
\* whose row and column are both uncovered, whatever the magnitude of the
\* cell values: some uncovered cell that was not zero before is zero after.
C19_RebalanceExposesZero ==
    [][pc = "add_and_subtract" =>
          \E c \in Uncovered :
              /\ table[c[1]][c[2]] # WideZero
              /\ table'[c[1]][c[2]] = WideZero]_vars

\* the first rebalance of a 2 x 2 call has run on uncovered cells that were
\* all above 0x7FFFFFFF: it changed the table, and the loop is back at
\* kuhn_add_and_subtract with no uncovered zero
C19_Witness ==
    /\ pc = "add_and_subtract"
    /\ n = 2
    /\ table # orig
    /\ WideNoUncoveredZero
    /\ \A c \in Uncovered : WideLess(WideMinStart, orig[c[1]][c[2]])

----------------------------------------------------------------------------
(* The rebalance and the matchings of least cost *)

\* the matchings of least cost of t
OptimalMatchings(t) == {f \in Matchings : AssignmentCost(t, f) = MinCost(t)}

\* C21 as stated: in every state where kuhn_match calls the rebalance, for
\* every n <= m, the set of assignments of least total cost is the same for
\* the table before the step and for the table after it.
C21_OptimalSetKept ==
    [][pc = "add_and_subtract" =>
          OptimalMatchings(table) = OptimalMatchings(table')]_vars

\* C21 amended: a rebalance with subtracted minimum d changes the cost of an
\* assignment by d times (the number of its columns that are covered minus
\* the number of uncovered rows); for n = m every assignment uses every
\* column, the change is the same for all, and the set of assignments of
\* least cost is unchanged.
C21_OptimalSetKeptSquare ==
    [][pc = "add_and_subtract" =>
          /\ \A f \in Matchings :
                AssignmentCost(table', f) =
                    AssignmentCost(table, f)
                    + LeastUncovered * (Cardinality({i \in Rows : col_covered[f[i].col]})
                                        - Cardinality({i \in Rows : ~row_covered[i]}))
          /\ n = m => OptimalMatchings(table) = OptimalMatchings(table')]_vars

\* a rebalance has run on a table with fewer rows than columns and the
\* assignments of least cost are no longer those of the row-reduced input
C21_Witness ==
    /\ pc = "find_prime"
    /\ n < m
    /\ table # Reduced
    /\ OptimalMatchings(table) # OptimalMatchings(Reduced)

----------------------------------------------------------------------------
(* Properties of kuhn_reduce_rows *)

\* the least value of row i of t
RowLeast(t, i) ==
    CHOOSE v \in {t[i][j] : j \in Cols} : \A j \in Cols : v <= t[i][j]

\* C22: after the row reduction every cell is its original value minus the
\* original minimum of its row, so every row holds a zero and no negative
\* value, whatever the signs of the row's values and also for m = 1.
C22_RowsReduced ==
    pc = "mark" =>
        \A i \in Rows :
            /\ \A j \in Cols : table[i][j] = orig[i][j] - RowLeast(orig, i)
            /\ \E j \in Cols : table[i][j] = 0
            /\ \A j \in Cols : table[i][j] >= 0

\* the reduction has run on a row of equal negative values and on a row
\* whose negative minimum is not in its first cell
C22_Witness ==
    /\ pc = "mark"
    /\ n = 2 /\ m = 3
    /\ \A j \in Cols : orig[0][j] = -1
    /\ orig[1][0] = MaxVal /\ orig[1][2] = -1
    /\ table[1][0] = MaxVal + 1

\* C23: row reduction is idempotent: reducing the reduced table again
\* yields the reduced table.
C23_ReduceIdempotent ==
    pc = "mark" => kuhn_reduce_rows(n, m, table) = table

\* the reduction has changed a table with a negative first cell that is the
\* least of its row, and a second reduction would subtract 0 from that row
C23_Witness ==
    /\ pc = "mark"
    /\ table # orig
    /\ \E i \in Rows : orig[i][0] < 0 /\ RowLeast(orig, i) = orig[i][0] /\ RowLeast(table, i) = 0

----------------------------------------------------------------------------
(* Properties of kuhn_mark *)

\* cell (i2, j2) comes before cell (i, j) in row-major order
Earlier(i2, j2, i, j) == i2 * m + j2 < i * m + j

\* C24: kuhn_mark stars, in row-major order, exactly the zero cells whose
\* row and column hold no earlier star; the result holds only STAR and NONE,
\* stars only zero cells, has at most one star per row and per column, and
\* leaves no zero cell whose row and column are both free of stars.
C24_GreedyStars ==
    [][pc = "mark" =>
          /\ \A i \in Rows, j \in Cols :
                /\ marks'[i][j] \in {MARKED, UNMARKED}
                /\ marks'[i][j] = MARKED <=>
                      /\ table[i][j] = 0
                      /\ ~\E j2 \in Cols : Earlier(i, j2, i, j) /\ marks'[i][j2] = MARKED
                      /\ ~\E i2 \in Rows : Earlier(i2, j, i, j) /\ marks'[i2][j] = MARKED
                /\ marks'[i][j] = MARKED => table[i][j] = 0
          /\ \A i \in Rows : Cardinality({j \in Cols : marks'[i][j] = MARKED}) <= 1
          /\ \A j \in Cols : Cardinality({i \in Rows : marks'[i][j] = MARKED}) <= 1
          /\ ~\E i \in Rows, j \in Cols :
                /\ table[i][j] = 0
                /\ \A j2 \in Cols : marks'[i][j2] # MARKED
                /\ \A i2 \in Rows : marks'[i2][j] # MARKED]_vars

\* the initial marking has run and is maximal without being maximum: a row
\* is left without star because the column of each of its zeros was taken
C24_Witness ==
    /\ pc = "is_done"
    /\ table = Reduced
    /\ marks = kuhn_mark(n, m, table)
    /\ \E i \in Rows :
          /\ StarsInRow(i) = {}
          /\ \E j \in Cols : table[i][j] = 0 /\ StarsInCol(j) # {}

----------------------------------------------------------------------------
(* kuhn_is_done as a function of arbitrary marks and arbitrary column
   covers.  ref.bits records the columns that were covered on entry. *)

MaxMarkCells == 6   \* most cells of the enumerated mark matrices

MarkShapes == {sh \in ValidShapes : sh[1] * sh[2] <= MaxMarkCells}

InitIsDone ==
    \E sh \in MarkShapes :
        /\ n = sh[1]
        /\ m = sh[2]
        /\ table = [i \in 0 .. (n - 1) |-> [j \in 0 .. (m - 1) |-> 0]]
        /\ orig = table
        /\ marks \in [0 .. (n - 1) -> [0 .. (m - 1) -> {UNMARKED, MARKED, PRIME}]]
        /\ row_covered = [i \in 0 .. (n - 1) |-> FALSE]
        /\ col_covered \in [0 .. (m - 1) -> BOOLEAN]
        /\ prime = [row |-> 0, col |-> 0]
        /\ zeroes = NoBitSet
        /\ assignment = <<>>
        /\ pc = "is_done"
        /\ ref = [size |-> 0, bits |-> {j \in 0 .. (m - 1) : col_covered[j]}, calls |-> 0]

NextIsDone == KuhnIsDone

SpecIsDone == InitIsDone /\ [][NextIsDone]_vars

----------------------------------------------------------------------------
(* The order of the steps of kuhn_match *)

\* the positions that may follow position p
Successors(p) ==
    CASE p = "call" -> {"reduce_rows"}
      [] p = "reduce_rows" -> {"mark"}
      [] p = "mark" -> {"is_done"}
      [] p = "is_done" -> {"find_prime", "assign"}
      [] p = "find_prime" -> {"any"}
      [] p = "any" -> {"any", "add_and_subtract", "alt_marks"}
      [] p = "add_and_subtract" -> {"find_prime"}
      [] p = "alt_marks" -> {"is_done"}
      [] p = "assign" -> {"done"}
      [] OTHER -> {}

\* C26: the steps of kuhn_match come in this order: the row reduction once,
\* then the initial marking once, then the completion test; after a false
\* test kuhn_find_prime, each failed kuhn_find_prime followed by one
\* rebalance and kuhn_find_prime again with no completion test in between; a
\* successful kuhn_find_prime is followed by one kuhn_alt_marks with the
\* reset of the covers and then by the completion test; the assignment is
\* read off only after a completion test that returned true.
C26_StepOrder ==
    [][/\ pc' \in Successors(pc)
       /\ pc = "is_done" =>
             pc' = IF kuhn_is_done(n, m, marks, col_covered) THEN "assign" ELSE "find_prime"
       /\ (pc = "any" /\ pc' = "add_and_subtract") => bitset_any(zeroes) < 0
       /\ (pc = "any" /\ pc' = "alt_marks") =>
             /\ bitset_any(zeroes) >= 0
             /\ StarsInRow(prime'.row) = {}
       /\ (pc = "any" /\ pc' = "any") => bitset_any(zeroes) >= 0
       /\ pc = "alt_marks" =>
             /\ \A i \in Rows : ~row_covered'[i]
             /\ \A j \in Cols : ~col_covered'[j]]_vars

\* a call has returned after a failed search with its rebalance, a
\* successful search and its augmentation
C26_Witness ==
    /\ pc = "done"
    /\ table # Reduced
    /\ marks # kuhn_mark(n, m, Reduced)

----------------------------------------------------------------------------
(* Properties of bitset_any *)

\* the lowest bit position of a non-empty limb
LowestBit(x) == CHOOSE b \in x : \A l \in x : b <= l

\* C27: on a non-empty bit set any() returns the index of the lowest set
\* bit of the limb that `first` designates, computed as lb(limb & -limb); a
\* limb that goes from empty to non-empty becomes the one `first` designates,
\* so that limb is the most recently filled of the non-empty limbs.
C27_AnyLowestBitOfFirst ==
    /\ []((pc \in {"replay", "mismatch"} /\ Members(zeroes) # {}) =>
            /\ zeroes.first # 0
            /\ zeroes.limbs[zeroes.first - 1] # {}
            /\ bitset_any(zeroes) =
                  (zeroes.first - 1) * LIMB_BITS + LowestBit(zeroes.limbs[zeroes.first - 1]))
    /\ [][pc = "replay" =>
             \A l \in 0 .. (zeroes.c - 1) :
                 (zeroes.limbs[l] = {} /\ zeroes'.limbs[l] # {}) => zeroes'.first = l + 1]_vars

\* a replay on a bit set of four limbs after which bit 0 is set and `first`
\* designates no limb
C27_Witness ==
    /\ pc \in {"replay", "mismatch"}
    /\ ref.size = 4 * LIMB_BITS
    /\ 0 \in Members(zeroes)
    /\ zeroes.first = 0

----------------------------------------------------------------------------
(* The rebalance, the covers and the marks *)

\* C28: a rebalance changes only the cells of the table: every row cover,
\* every column cover and every mark is the same after it as before it, and
\* the kuhn_find_prime that follows starts from those covers and marks.
C28_RebalanceFrame ==
    [][/\ pc = "add_and_subtract" =>
             /\ row_covered' = row_covered
             /\ col_covered' = col_covered
             /\ marks' = marks
             /\ pc' = "find_prime"
       /\ pc = "find_prime" =>
             /\ row_covered' = row_covered
             /\ col_covered' = col_covered
             /\ marks' = marks]_vars

\* kuhn_find_prime has been entered again after a rebalance, with a covered
\* row and the PRIME the failed search left
C28_Witness ==
    /\ pc = "any"
    /\ table # Reduced
    /\ PrimeCount >= 1
    /\ \E i \in Rows : row_covered[i] /\ \E j \in Cols : marks[i][j] = PRIME
    /\ Members(zeroes) # {}

\* kuhn_mark has returned
Marked == pc \in {"is_done", "find_prime", "any", "add_and_subtract", "alt_marks",
                  "assign", "done"}

C30_NoNegativeCell ==
    (Marked \/ pc = "mark") => \A i \in Rows, j \in Cols : table[i][j] >= 0

\* rebalances have lowered a cell to zero and raised another cell above its
\* row-reduced value
C30_Witness ==
    /\ pc = "find_prime"
    /\ \E i \in Rows, j \in Cols : Reduced[i][j] > 0 /\ table[i][j] = 0
    /\ \E i \in Rows, j \in Cols : table[i][j] > Reduced[i][j]

----------------------------------------------------------------------------
(* Invariants of a search phase *)

\* kuhn_is_done has returned false and kuhn_alt_marks has not run yet
Searching == pc \in {"find_prime", "any", "add_and_subtract", "alt_marks"}

CoveredRows == {i \in Rows : row_covered[i]}
CoveredCols == {j \in Cols : col_covered[j]}

----------------------------------------------------------------------------
(* The minimum the rebalance uses, over the full width of Cell *)

\* the values of the uncovered cells of a table of wide cells
WideUncoveredValues == {table[c[1]][c[2]] : c \in Uncovered}

\* C32: whenever kuhn_match calls the rebalance, some cell has its row and
\* its column uncovered, every such cell is strictly positive, and the
\* minimum the rebalance uses is the value of one of these cells and is > 0,
\* never just the value the search for the minimum starts from.
C32_MinimumIsACell ==
    pc = "add_and_subtract" =>
        /\ Uncovered # {}
        /\ \A v \in WideUncoveredValues : WideLess(WideZero, v)
        /\ WideMin(n, m, table, row_covered, col_covered) \in WideUncoveredValues
        /\ WideLess(WideZero, WideMin(n, m, table, row_covered, col_covered))

\* the first rebalance of a 2 x 2 call has subtracted 0x7FFFFFFF from
\* uncovered cells that were all above it
C32_Witness ==
    /\ pc = "find_prime"
    /\ n = 2
    /\ \A c \in Uncovered :
          /\ WideLess(WideMinStart, orig[c[1]][c[2]])
          /\ table[c[1]][c[2]] = WideSub(orig[c[1]][c[2]], WideMinStart)

\* the table after one more rebalance of t under the current covers
WideRebalanced(t) == kuhn_add_and_subtract_wide(n, m, t, row_covered, col_covered)

\* C33: every kuhn_find_prime call that follows a rebalance returns a prime
\* or covers at least one row that was uncovered before the call, so a
\* phase has at most n rebalances.
C33_SearchAfterRebalanceAdvances ==
    [][pc = "find_prime" =>
          \/ pc' = "alt_marks"
          \/ /\ CoveredRows \subseteq CoveredRows'
             /\ CoveredRows' # CoveredRows]_vars

\* a 2 x 2 call whose first phase has run two rebalances with no row covered
\* and no zero uncovered, and is about to run a third
C33_Witness ==
    /\ pc = "add_and_subtract"
    /\ n = 2
    /\ CoveredRows = {}
    /\ WideRebalanced(orig) # orig
    /\ table = WideRebalanced(WideRebalanced(orig))
    /\ table # WideRebalanced(orig)
    /\ WideNoUncoveredZero

----------------------------------------------------------------------------
(* The walk of kuhn_alt_marks and the alt array *)

\* the walk kuhn_alt_marks is about to make
Walk == AltPath(n, m, marks, prime)

\* C34: in every run of kuhn_alt_marks the walk from the prime stops at a
\* column with no STAR after visiting pairwise distinct cells; every row with
\* a STAR it reaches holds a PRIME, so row_primes is never -1 when it is
\* used as a column; and index stays <= 2 * (number of STARs) and < n * m,
\* so no store goes past the end of alt.
C34_WalkStaysInAlt ==
    pc = "alt_marks" =>
        /\ ~Walk.ub
        /\ StarsInCol(Walk.alt[Len(Walk.alt)].col) = {}
        /\ \A k1, k2 \in 1 .. Len(Walk.alt) : k1 # k2 => Walk.alt[k1] # Walk.alt[k2]
        /\ \A k \in 1 .. Len(Walk.alt) :
              StarsInRow(Walk.alt[k].row) # {} =>
                  LastColWith(marks, m, Walk.alt[k].row, PRIME, 0, -1) >= 0
        /\ Len(Walk.alt) - 1 <= 2 * StarCount
        /\ Len(Walk.alt) - 1 < n * m

\* a walk through two STARs: index is 4, with three STARs in a 3 x 3 table
C34_Witness ==
    /\ pc = "alt_marks"
    /\ n = 3 /\ m = 3
    /\ Len(Walk.alt) = 5
    /\ StarCount = 2

----------------------------------------------------------------------------
(* The layout of the bit set's buffer *)

\* the word offsets of prev[0..c] and of next[0..c] in _buf
PrevWords(this) == {PrevAt(this.c, j) : j \in 0 .. this.c}
NextWords(this) == {NextAt(this.c, j) : j \in 0 .. this.c}

\* C35: a bit set made by bitset_create for c limbs has c limbs and c + 1
\* entries each of prev and next, all zero at first and pairwise disjoint in
\* memory, so that a store to next[0] never changes prev[c] and a store to
\* prev[c] never changes next[0]; any() on a fresh bit set returns -1.
C35_LinksDisjoint ==
    pc \in {"replay", "mismatch"} =>
        /\ DOMAIN zeroes.limbs = 0 .. (zeroes.c - 1)
        /\ Cardinality(PrevWords(zeroes)) = zeroes.c + 1
        /\ Cardinality(NextWords(zeroes)) = zeroes.c + 1
        /\ PrevWords(zeroes) \cup NextWords(zeroes) \subseteq DOMAIN zeroes.words
        /\ ref.calls = 0 =>
              /\ \A l \in DOMAIN zeroes.limbs : zeroes.limbs[l] = {}
              /\ \A w \in DOMAIN zeroes.words : zeroes.words[w] = 0
              /\ zeroes.first = 0
              /\ bitset_any(zeroes) = -1
        /\ PrevWords(zeroes) \cap NextWords(zeroes) = {}

\* a replay on a bit set of four limbs that never touched the last limb: the
\* store to next[0] in bitset_unset has made prev[4] non-zero
C35_Witness ==
    /\ pc = "replay"
    /\ ref.size = 4 * LIMB_BITS
    /\ zeroes.limbs[3] = {}
    /\ zeroes.first # 4
    /\ ref.calls = 3
    /\ zeroes.words[PrevAt(4, 4)] # 0

----------------------------------------------------------------------------
(* Calls of bitset_set and bitset_unset that change no limb's emptiness *)

\* C36: a set(i) whose limb is already non-empty, and an unset(i) whose limb
\* stays non-empty or was already empty, change at most the bit i: `first`
\* and every prev and next entry stay as they were, so a repeated set(i) or
\* unset(i) never links or unlinks a limb a second time.  These are the
\* calls that change the emptiness of no limb.
C36_NoSpliceWithoutTransition ==
    [][(pc = "replay" /\ NonEmptyLimbs(zeroes') = NonEmptyLimbs(zeroes)) =>
          /\ zeroes'.first = zeroes.first
          /\ zeroes'.words = zeroes.words
          /\ zeroes'.c = zeroes.c
          /\ Cardinality((Members(zeroes') \ Members(zeroes))
                           \cup (Members(zeroes) \ Members(zeroes'))) <= 1]_vars

\* two calls on a fresh bit set have left bits 0 and 63 of the first limb
\* set: the second was a set on a limb that was already non-empty
C36_Witness ==
    /\ pc = "replay"
    /\ ref.calls = 2
    /\ Members(zeroes) = {0, LIMB_BITS - 1}
    /\ zeroes.first = 1

====
